---- MODULE Spec2Model ----
(***************************************************************************)
(* Model of the chess game of src/chess.js: the board, the selection, the  *)
(* side to move, the click handler and the pending checkmate timers.       *)
(* Squares are <<row, col>> with row and col in 0..7, row 0 being Black's  *)
(* back rank.  Pieces are the one-letter strings of the source, "" being   *)
(* an empty square.                                                        *)
(*                                                                         *)
(* alert is the text of the dialog shown by the latest handler or timer    *)
(* callback ("" when it showed none): alert() is modal, so a dialog is     *)
(* dismissed before the next event is handled.  outcome names the branch   *)
(* the latest handler took, mateDeclared records that some move took the   *)
(* checkmate branch, and moves counts the moves applied.                   *)
(*                                                                         *)
(* evPiece, evFrom and evBoard are the arguments of a call of isLegalMove  *)
(* outside the game and evResult its result for every destination.         *)
(***************************************************************************)
EXTENDS Integers, Sequences, FiniteSets, TLC

VARIABLES gameBoard, selected, currentPlayer, timers, alert,
          outcome, mateDeclared, moves, evPiece, evFrom, evBoard, evResult

vars == <<gameBoard, selected, currentPlayer, timers, alert,
          outcome, mateDeclared, moves, evPiece, evFrom, evBoard, evResult>>

gameVars == <<gameBoard, selected, currentPlayer, timers, alert,
              outcome, mateDeclared, moves>>

evVars == <<evPiece, evFrom, evBoard, evResult>>

\* ------------------------------------------------------------------------
\* Bounds of the model
\* ------------------------------------------------------------------------

\* Accepted moves explored from the standard initial position.
MaxMoves == 4

\* Accepted moves explored from each of the sparse positions.
MaxEndMoves == 2

\* Blocking pieces placed on the board of the pure-function evaluation.
MaxBlockers == 1

\* ------------------------------------------------------------------------
\* Data
\* ------------------------------------------------------------------------

Size == 8

Range == 0 .. (Size - 1)

Squares == Range \X Range

null == <<>>

Abs(x) == IF x < 0 THEN -x ELSE x

toUpperCase(p) ==
    CASE p = "r" -> "R" [] p = "n" -> "N" [] p = "b" -> "B"
      [] p = "q" -> "Q" [] p = "k" -> "K" [] p = "p" -> "P"
      [] OTHER -> p

toLowerCase(p) ==
    CASE p = "R" -> "r" [] p = "N" -> "n" [] p = "B" -> "b"
      [] p = "Q" -> "q" [] p = "K" -> "k" [] p = "P" -> "p"
      [] OTHER -> p

isWhite(piece) == piece # "" /\ piece = toUpperCase(piece)

isBlack(piece) == piece # "" /\ piece = toLowerCase(piece)

\* (color === 'white' && isWhite(piece)) || (color === 'black' && isBlack(piece))
ownedBy(color, piece) ==
    \/ color = "white" /\ isWhite(piece)
    \/ color = "black" /\ isBlack(piece)

\* const opponent = color === 'white' ? 'black' : 'white'
opponentOf(color) == IF color = "white" THEN "black" ELSE "white"

\* color.charAt(0).toUpperCase() + color.slice(1)
capitalize(color) ==
    CASE color = "white" -> "White" [] color = "black" -> "Black"
      [] OTHER -> color

backRank == <<"r", "n", "b", "q", "k", "b", "n", "r">>

initialBoard ==
    [r \in Range |->
        [c \in Range |->
            CASE r = 0 -> backRank[c + 1]
              [] r = 1 -> "p"
              [] r = 6 -> "P"
              [] r = 7 -> toUpperCase(backRank[c + 1])
              [] OTHER -> ""]]

\* ------------------------------------------------------------------------
\* Move legality evaluator
\* ------------------------------------------------------------------------

\* board[r][c] as JavaScript reads it: a row outside the array is undefined
\* and indexing it throws; a column outside the row reads undefined (falsy).
readSquare(board, r, c) ==
    IF r \notin Range THEN "TypeError"
    ELSE IF c \notin Range THEN ""
    ELSE board[r][c]

\* The scan returning after the first square it looks at.
rookScan_firstSquareOnly(board, r, c, toRow, toCol, rowStep, colStep) ==
    IF ~(r # toRow \/ c # toCol) THEN "true"
    ELSE LET sq == readSquare(board, r, c)
         IN  IF sq = "TypeError" THEN "TypeError"
             ELSE IF sq # "" THEN "false"
             ELSE "true"

RECURSIVE rookScan(_, _, _, _, _, _, _)
\* while (r !== toRow || c !== toCol) { if (board[r][c]) return false; ... }
rookScan(board, r, c, toRow, toCol, rowStep, colStep) ==
    IF ~(r # toRow \/ c # toCol) THEN "true"
    ELSE LET sq == readSquare(board, r, c)
         IN  IF sq = "TypeError" THEN "TypeError"
             ELSE IF sq # "" THEN "false"
             ELSE rookScan(board, r + rowStep, c + colStep, toRow, toCol,
                           rowStep, colStep)

RECURSIVE bishopScan(_, _, _, _, _, _, _)
\* while (r !== toRow && c !== toCol) { if (board[r][c]) return false; ... }
bishopScan(board, r, c, toRow, toCol, rowStep, colStep) ==
    IF ~(r # toRow /\ c # toCol) THEN "true"
    ELSE LET sq == readSquare(board, r, c)
         IN  IF sq = "TypeError" THEN "TypeError"
             ELSE IF sq # "" THEN "false"
             ELSE bishopScan(board, r + rowStep, c + colStep, toRow, toCol,
                             rowStep, colStep)

rookLike(from, to, board) ==
    LET rowStep == IF from[1] = to[1] THEN 0
                   ELSE IF to[1] > from[1] THEN 1 ELSE -1
        colStep == IF from[2] = to[2] THEN 0
                   ELSE IF to[2] > from[2] THEN 1 ELSE -1
    IN  rookScan(board, from[1] + rowStep, from[2] + colStep, to[1], to[2],
                 rowStep, colStep)

bishopLike(from, to, board) ==
    LET rowStep == IF to[1] > from[1] THEN 1 ELSE -1
        colStep == IF to[2] > from[2] THEN 1 ELSE -1
    IN  bishopScan(board, from[1] + rowStep, from[2] + colStep, to[1], to[2],
                   rowStep, colStep)

\* The white pawn whose forward move counts as an attack on an occupied
\* square.
whitePawn_attacksAhead(from, to, board, ignorePawnCapture) ==
    LET target == board[to[1]][to[2]]
    IN  \/ /\ from[2] = to[2]
           /\ target = "" \/ ignorePawnCapture
           /\ \/ to[1] = from[1] - 1
              \/ from[1] = 6 /\ to[1] = 4 /\ board[5][from[2]] = ""
        \/ /\ Abs(to[2] - from[2]) = 1
           /\ to[1] = from[1] - 1
           /\ target # ""
           /\ isBlack(target)
        \/ /\ ignorePawnCapture
           /\ Abs(to[2] - from[2]) = 1
           /\ to[1] = from[1] - 1

\* The white pawn jumping over the square in front of it.
whitePawn_jumps(from, to, board, ignorePawnCapture) ==
    LET target == board[to[1]][to[2]]
    IN  \/ /\ from[2] = to[2]
           /\ target = ""
           /\ \/ to[1] = from[1] - 1
              \/ from[1] = 6 /\ to[1] = 4
        \/ /\ Abs(to[2] - from[2]) = 1
           /\ to[1] = from[1] - 1
           /\ target # ""
           /\ isBlack(target)
        \/ /\ ignorePawnCapture
           /\ Abs(to[2] - from[2]) = 1
           /\ to[1] = from[1] - 1

whitePawn(from, to, board, ignorePawnCapture) ==
    LET target == board[to[1]][to[2]]
    IN  \/ /\ from[2] = to[2]
           /\ target = ""
           /\ \/ to[1] = from[1] - 1
              \/ from[1] = 6 /\ to[1] = 4 /\ board[5][from[2]] = ""
        \/ /\ Abs(to[2] - from[2]) = 1
           /\ to[1] = from[1] - 1
           /\ target # ""
           /\ isBlack(target)
        \/ /\ ignorePawnCapture
           /\ Abs(to[2] - from[2]) = 1
           /\ to[1] = from[1] - 1

\* The black pawn that also moves straight back, one row or two.
blackPawn_retreats(from, to, board, ignorePawnCapture) ==
    LET target == board[to[1]][to[2]]
    IN  \/ /\ from[2] = to[2]
           /\ target = ""
           /\ \/ Abs(to[1] - from[1]) \in {1, 2}
              \/ from[1] = 1 /\ to[1] = 3 /\ board[2][from[2]] = ""
        \/ /\ Abs(to[2] - from[2]) = 1
           /\ to[1] = from[1] + 1
           /\ target # ""
           /\ isWhite(target)
        \/ /\ ignorePawnCapture
           /\ Abs(to[2] - from[2]) = 1
           /\ to[1] = from[1] + 1

blackPawn(from, to, board, ignorePawnCapture) ==
    LET target == board[to[1]][to[2]]
    IN  \/ /\ from[2] = to[2]
           /\ target = ""
           /\ \/ to[1] = from[1] + 1
              \/ from[1] = 1 /\ to[1] = 3 /\ board[2][from[2]] = ""
        \/ /\ Abs(to[2] - from[2]) = 1
           /\ to[1] = from[1] + 1
           /\ target # ""
           /\ isWhite(target)
        \/ /\ ignorePawnCapture
           /\ Abs(to[2] - from[2]) = 1
           /\ to[1] = from[1] + 1

\* The result of isLegalMove: "true", "false", or "TypeError" when a scan
\* indexes a row outside the board.
isLegalMoveResult(from, to, piece, board, ignorePawnCapture) ==
    LET kind == toLowerCase(piece)
        sameLine == from[1] = to[1] \/ from[2] = to[2]
        sameDiag == Abs(from[1] - to[1]) = Abs(from[2] - to[2])
    IN  IF piece = "P" /\ whitePawn(from, to, board, ignorePawnCapture)
            THEN "true"
        ELSE IF piece = "p" /\ blackPawn(from, to, board, ignorePawnCapture)
            THEN "true"
        ELSE IF kind = "r" /\ sameLine THEN rookLike(from, to, board)
        ELSE IF kind = "b" /\ sameDiag THEN bishopLike(from, to, board)
        ELSE IF kind = "q" /\ sameLine THEN rookLike(from, to, board)
        ELSE IF kind = "q" /\ sameDiag THEN bishopLike(from, to, board)
        ELSE IF /\ kind = "n"
                /\ \/ Abs(from[1] - to[1]) = 2 /\ Abs(from[2] - to[2]) = 1
                   \/ Abs(from[1] - to[1]) = 1 /\ Abs(from[2] - to[2]) = 2
            THEN "true"
        ELSE IF /\ kind = "k"
                /\ Abs(from[1] - to[1]) <= 1
                /\ Abs(from[2] - to[2]) <= 1
            THEN "true"
        ELSE "false"

isLegalMove(from, to, piece, board, ignorePawnCapture) ==
    isLegalMoveResult(from, to, piece, board, ignorePawnCapture) = "true"

\* ------------------------------------------------------------------------
\* Attack oracle, check detector, legal move enumerator
\* ------------------------------------------------------------------------

rowMajor(sq) == sq[1] * Size + sq[2]

findKing(board, color) ==
    LET king == IF color = "white" THEN "K" ELSE "k"
        found == {sq \in Squares : board[sq[1]][sq[2]] = king}
    IN  IF found = {} THEN null
        ELSE CHOOSE sq \in found :
                 \A other \in found : rowMajor(sq) <= rowMajor(other)

isSquareAttacked(board, row, col, byColor) ==
    \E sq \in Squares :
        LET piece == board[sq[1]][sq[2]]
        IN  /\ piece # ""
            /\ ownedBy(byColor, piece)
            /\ isLegalMove(sq, <<row, col>>, piece, board, TRUE)

\* A missing king counts as a king in check.
isInCheck_missingKingInCheck(board, color) ==
    LET kingPos == findKing(board, color)
    IN  IF kingPos = null THEN TRUE
        ELSE isSquareAttacked(board, kingPos[1], kingPos[2],
                              opponentOf(color))

isInCheck(board, color) ==
    LET kingPos == findKing(board, color)
    IN  IF kingPos = null THEN FALSE
        ELSE isSquareAttacked(board, kingPos[1], kingPos[2],
                              opponentOf(color))

\* The trial move that leaves the moved piece on its origin as well.
simulateMove_originKept(board, from, to, piece) ==
    [board EXCEPT ![to[1]][to[2]] = piece]

\* const newBoard = board.map(r => r.slice());
\* The trial move that turns a pawn reaching the last rank into a queen.
simulateMove_promotes(board, from, to, piece) ==
    LET arrived == IF piece = "P" /\ to[1] = 0 THEN "Q"
                   ELSE IF piece = "p" /\ to[1] = 7 THEN "q"
                   ELSE piece
        placed == [board EXCEPT ![to[1]][to[2]] = arrived]
    IN  [placed EXCEPT ![from[1]][from[2]] = ""]

\* newBoard[to.row][to.col] = piece; newBoard[from.row][from.col] = '';
simulateMove(board, from, to, piece) ==
    LET placed == [board EXCEPT ![to[1]][to[2]] = piece]
    IN  [placed EXCEPT ![from[1]][from[2]] = ""]

\* The trial move left out: any move of the right shape counts.
hasAnyLegalMoves_noTrial(board, color) ==
    \E from \in Squares :
        LET piece == board[from[1]][from[2]]
        IN  /\ piece # ""
            /\ ownedBy(color, piece)
            /\ \E to \in Squares :
                   LET target == board[to[1]][to[2]]
                   IN  /\ to # from
                       /\ ~(target # "" /\ ownedBy(color, target))
                       /\ isLegalMove(from, to, piece, board, FALSE)

hasAnyLegalMoves(board, color) ==
    \E from \in Squares :
        LET piece == board[from[1]][from[2]]
        IN  /\ piece # ""
            /\ ownedBy(color, piece)
            /\ \E to \in Squares :
                   LET target == board[to[1]][to[2]]
                   IN  /\ to # from
                       /\ ~(target # "" /\ ownedBy(color, target))
                       /\ isLegalMove(from, to, piece, board, FALSE)
                       /\ ~isInCheck(simulateMove(board, from, to, piece),
                                     color)

\* Destinations holding a piece of the side to move are not skipped.
getPossibleMoves_ownTargets(row, col) ==
    LET piece == gameBoard[row][col]
    IN  IF piece = "" THEN {}
        ELSE {to \in Squares :
                 /\ to # <<row, col>>
                 /\ isLegalMove(<<row, col>>, to, piece, gameBoard, FALSE)
                 /\ ~isInCheck(simulateMove(gameBoard, <<row, col>>, to,
                                            piece), currentPlayer)}

\* The squares pushed onto moves; the source's list is used for membership
\* only, so it is kept here as a set.
getPossibleMoves(row, col) ==
    LET piece == gameBoard[row][col]
    IN  IF piece = "" THEN {}
        ELSE {to \in Squares :
                 LET target == gameBoard[to[1]][to[2]]
                 IN  /\ to # <<row, col>>
                     /\ ~(target # "" /\ ownedBy(currentPlayer, target))
                     /\ isLegalMove(<<row, col>>, to, piece, gameBoard, FALSE)
                     /\ ~isInCheck(simulateMove(gameBoard, <<row, col>>, to,
                                                piece), currentPlayer)}

\* ------------------------------------------------------------------------
\* The live board under the trial moves
\*
\* A trial move is two writes, newBoard[to] = piece and newBoard[from] = '',
\* on a copy of the board.  A write lands on the board that was copied
\* exactly when the copy shares the written row with it.
\* ------------------------------------------------------------------------

\* The copy made by board.slice(): a new outer array holding the same rows.
rowsSharedByCopy_slice == Range

\* board.map(row => row.slice()): every row of the copy is a new array.
rowsSharedByCopy == {}

\* The board after the trials <<index, from, to, piece>>, each made on a
\* copy of it, in the order of their indices.
liveBoardAfterTrials(live, trials) ==
    IF rowsSharedByCopy = {} \/ trials = {} THEN live
    ELSE [r \in Range |-> [c \in Range |->
             LET writers == {t \in trials :
                                t[2] = <<r, c>> \/ t[3] = <<r, c>>}
             IN  IF r \notin rowsSharedByCopy \/ writers = {}
                 THEN live[r][c]
                 ELSE LET last == CHOOSE t \in writers :
                                      \A other \in writers :
                                          other[1] <= t[1]
                      IN  IF last[3] = <<r, c>> THEN last[4] ELSE ""]]

\* The moves of color on board that pass the tests before the trial.
trialMoves(board, color) ==
    {m \in Squares \X Squares :
        LET piece == board[m[1][1]][m[1][2]]
            target == board[m[2][1]][m[2][2]]
        IN  /\ piece # ""
            /\ ownedBy(color, piece)
            /\ m[2] # m[1]
            /\ ~(target # "" /\ ownedBy(color, target))
            /\ isLegalMove(m[1], m[2], piece, board, FALSE)}

\* The position of a move in the loops of hasAnyLegalMoves.
loopIndex(m) == rowMajor(m[1]) * Size * Size + rowMajor(m[2])

trialOf(board, m) == <<loopIndex(m), m[1], m[2], board[m[1][1]][m[1][2]]>>

\* The trials of getPossibleMoves for the piece on from.
listingTrials(board, from, player) ==
    {trialOf(board, m) : m \in {n \in trialMoves(board, player) : n[1] = from}}

\* The trials of hasAnyLegalMoves: it returns at the first trial that leaves
\* the king of color safe.
searchTrials(board, color) ==
    LET safe == {m \in trialMoves(board, color) :
                    ~isInCheck(simulateMove(board, m[1], m[2],
                                            board[m[1][1]][m[1][2]]), color)}
    IN  {trialOf(board, m) :
            m \in {n \in trialMoves(board, color) :
                      \A found \in safe : loopIndex(n) <= loopIndex(found)}}

\* isInCheck(gameBoard, color) && !hasAnyLegalMoves(gameBoard, color), as
\* evaluated by line 320 and by the status line of renderBoard.
liveBoardAfterMateTest(live, color) ==
    liveBoardAfterTrials(live, IF isInCheck(live, color)
                               THEN searchTrials(live, color) ELSE {})

\* renderBoard with sel selected and player to move: getPossibleMoves for
\* the selected square, then the status line.  The renderBoard of line 321
\* runs for the mover, who is not in check after an accepted move: it lists
\* nothing and searches nothing.
liveBoardAfterRender(live, sel, player) ==
    liveBoardAfterMateTest(
        liveBoardAfterTrials(live, IF sel = null THEN {}
                                   ELSE listingTrials(live, sel, player)),
        player)

\* The text renderBoard puts in the #current-player element.  Every branch
\* of the click handler that changes the board, the selection or the side to
\* move ends with renderBoard(), so between handlers the element shows
\* statusText(gameBoard, currentPlayer).  The source's dash is written "-".
statusText(board, player) ==
    LET turn == "Current turn: " \o capitalize(player)
    IN  IF isInCheck(board, player)
        THEN IF ~hasAnyLegalMoves(board, player)
             THEN turn \o " - Check! Checkmate!"
             ELSE turn \o " - Check!"
        ELSE turn

\* ------------------------------------------------------------------------
\* Turn controller
\* ------------------------------------------------------------------------

\* The destination's occupant is not looked at.
targetAllowed_any(piece, player) == TRUE

\* !piece || (currentPlayer === 'white' && isBlack(piece))
\*        || (currentPlayer === 'black' && isWhite(piece))
targetAllowed(piece, player) ==
    \/ piece = ""
    \/ player = "white" /\ isBlack(piece)
    \/ player = "black" /\ isWhite(piece)

\* The king-safety test left out.
kingSafe_skipped(newBoard, player) == TRUE

\* if (!isInCheck(newBoard, currentPlayer))
kingSafe(newBoard, player) == ~isInCheck(newBoard, player)

\* Checkmate declared whenever the opponent has no legal move.
isCheckmate_noMoveOnly(board, opponent) == ~hasAnyLegalMoves(board, opponent)

\* Checkmate declared whenever the opponent is in check.
isCheckmate_checkOnly(board, opponent) == isInCheck(board, opponent)

\* if (isInCheck(gameBoard, opponent) && !hasAnyLegalMoves(gameBoard, opponent))
isCheckmate(board, opponent) ==
    isInCheck(board, opponent) /\ ~hasAnyLegalMoves(board, opponent)

\* The turn is not handed over.
playerAfterMove_same(player) == player

\* currentPlayer = opponent
playerAfterMove(player) == opponentOf(player)

\* Any piece can be selected.
canSelect_anyPiece(piece, player) == piece # ""

\* the guard of the selecting branch
canSelect(piece, player) == piece # "" /\ ownedBy(player, piece)

\* `Checkmate! ${currentPlayer.charAt(0).toUpperCase() + currentPlayer.slice(1)} wins!`
\* evaluated when the timer fires.
checkmateAlert(player) == "Checkmate! " \o capitalize(player) \o " wins!"

checkAlert == "You can't move into check!"

\* The condition of lines 303-310 for a click on `to` while `from` is selected.
patternOk(from, to) ==
    /\ from # to
    /\ targetAllowed(gameBoard[to[1]][to[2]], currentPlayer)
    /\ isLegalMove(from, to, gameBoard[from[1]][from[2]], gameBoard, FALSE)

\* The click on `to` while `from` is selected is applied as a move.
accepts(from, to) ==
    /\ patternOk(from, to)
    /\ kingSafe(simulateMove(gameBoard, from, to, gameBoard[from[1]][from[2]]),
                currentPlayer)

handleSquareClick(row, col) ==
    LET piece == gameBoard[row][col]
        to == <<row, col>>
    IN  IF selected # null
        THEN LET from == selected
                 movingPiece == gameBoard[from[1]][from[2]]
                 newBoard == simulateMove(gameBoard, from, to, movingPiece)
                 opponent == opponentOf(currentPlayer)
             IN  IF accepts(from, to)
                 THEN /\ gameBoard' =
                             liveBoardAfterRender(
                                 liveBoardAfterMateTest(newBoard, opponent),
                                 null, playerAfterMove(currentPlayer))
                      /\ selected' = null
                      /\ timers' = IF isCheckmate(newBoard, opponent)
                                   THEN timers + 1 ELSE timers
                      /\ mateDeclared' = (mateDeclared
                                          \/ isCheckmate(newBoard, opponent))
                      /\ currentPlayer' = playerAfterMove(currentPlayer)
                      /\ alert' = ""
                      /\ outcome' = IF isCheckmate(newBoard, opponent)
                                    THEN "mate" ELSE "moved"
                      /\ moves' = moves + 1
                 ELSE /\ alert' = IF patternOk(from, to) THEN checkAlert
                                  ELSE ""
                      /\ selected' = null
                      /\ outcome' = IF from = to THEN "deselected"
                                    ELSE IF patternOk(from, to)
                                    THEN "intoCheck"
                                    ELSE "rejected"
                      /\ gameBoard' =
                             liveBoardAfterRender(
                                 liveBoardAfterTrials(
                                     gameBoard,
                                     IF patternOk(from, to)
                                     THEN {<<0, from, to, movingPiece>>}
                                     ELSE {}),
                                 null, currentPlayer)
                      /\ UNCHANGED <<currentPlayer, timers, mateDeclared,
                                     moves>>
        ELSE IF canSelect(piece, currentPlayer)
        THEN /\ selected' = to
             /\ gameBoard' = liveBoardAfterRender(gameBoard, to,
                                                  currentPlayer)
             /\ alert' = ""
             /\ outcome' = "selected"
             /\ UNCHANGED <<currentPlayer, timers, mateDeclared, moves>>
        ELSE UNCHANGED gameVars

\* The callback of setTimeout(() => alert(...), 100)
timerFires ==
    /\ timers > 0
    /\ timers' = timers - 1
    /\ alert' = checkmateAlert(currentPlayer)
    /\ outcome' = "announced"
    /\ UNCHANGED <<gameBoard, selected, currentPlayer, mateDeclared, moves>>

\* ------------------------------------------------------------------------
\* The game from the standard initial position
\* ------------------------------------------------------------------------

\* Nothing is being evaluated outside the game.
evIdle ==
    /\ evPiece = ""
    /\ evFrom = <<0, 0>>
    /\ evBoard = initialBoard
    /\ evResult = [to \in Squares |-> "unevaluated"]

gameStart(board, player) ==
    /\ gameBoard = board
    /\ selected = null
    /\ currentPlayer = player
    /\ timers = 0
    /\ alert = ""
    /\ mateDeclared = FALSE
    /\ outcome = "loaded"
    /\ moves = 0

Init == gameStart(initialBoard, "white") /\ evIdle

\* The squares clicked in the game from the initial position: those of the
\* king's and queen's pawns, the f and g pawns, the king's knights, the
\* white king and the black queen.
ClickSquares ==
    { <<6, 5>>, <<5, 5>>, <<1, 4>>, <<3, 4>>, <<6, 6>>, <<4, 6>>,
      <<0, 3>>, <<4, 7>>, <<6, 4>>, <<4, 4>>, <<7, 4>>,
      <<6, 3>>, <<4, 3>>, <<1, 3>>, <<3, 3>>, <<7, 6>>, <<0, 6>>, <<2, 5>> }

Click ==
    /\ \E sq \in ClickSquares : handleSquareClick(sq[1], sq[2])
    /\ moves' <= MaxMoves
    /\ UNCHANGED evVars

Timeout == timerFires /\ UNCHANGED evVars

Next == Click \/ Timeout

Spec == Init /\ [][Next]_vars

\* ------------------------------------------------------------------------
\* The game from sparse positions that play reaches
\* ------------------------------------------------------------------------

\* The board holding the pieces <<row, col, piece>> of ps and nothing else.
boardOf(ps) ==
    [r \in Range |->
        [c \in Range |->
            IF \E x \in ps : x[1] = r /\ x[2] = c
            THEN (CHOOSE x \in ps : x[1] = r /\ x[2] = c)[3]
            ELSE ""]]

\* White king in check from a rook on its row, next to a black pawn.
rookAndPawn ==
    [board |-> boardOf({<<6, 4, "K">>, <<6, 0, "r">>, <<4, 4, "p">>,
                        <<0, 4, "k">>}),
     player |-> "white"]

\* White mates on the back rank with the rook.
whiteMates ==
    [board |-> boardOf({<<0, 6, "k">>, <<1, 5, "p">>, <<1, 6, "p">>,
                        <<1, 7, "p">>, <<7, 3, "R">>, <<7, 6, "K">>}),
     player |-> "white"]

\* White bishop pinned to its king by a rook.
pinnedBishop ==
    [board |-> boardOf({<<7, 4, "K">>, <<6, 4, "B">>, <<3, 4, "r">>,
                        <<0, 0, "k">>}),
     player |-> "white"]

\* The white king can stalemate the cornered black king.
pawnStalemate ==
    [board |-> boardOf({<<0, 0, "k">>, <<1, 0, "P">>, <<2, 2, "K">>}),
     player |-> "white"]

\* A white pawn one step from the last rank, with a knight to capture there.
pawnOnSeventh ==
    [board |-> boardOf({<<0, 0, "k">>, <<0, 6, "n">>, <<1, 7, "P">>,
                        <<7, 1, "K">>}),
     player |-> "white"]

Endgames ==
    {rookAndPawn, whiteMates, pinnedBishop, pawnStalemate, pawnOnSeventh}

InitEnd == (\E pos \in Endgames : gameStart(pos.board, pos.player)) /\ evIdle

ClickAny ==
    /\ \E sq \in Squares : handleSquareClick(sq[1], sq[2])
    /\ moves' <= MaxEndMoves
    /\ UNCHANGED evVars

NextEnd == ClickAny \/ Timeout

SpecEnd == InitEnd /\ [][NextEnd]_vars

\* ------------------------------------------------------------------------
\* isLegalMove as a function of its arguments
\* ------------------------------------------------------------------------

Sliders == {"r", "b", "q", "R", "B", "Q"}

\* The origins of the evaluated moves: corners, edges and inner squares.
EvalOrigins == {0, 3, 7} \X {0, 4, 7}

RECURSIVE blockerSets(_)
\* The sets of at most n squares.
blockerSets(n) ==
    IF n = 0 THEN {{}}
    ELSE LET fewer == blockerSets(n - 1)
         IN  fewer \cup {S \cup {sq} : S \in fewer, sq \in Squares}

\* The board holding piece on from and a pawn on each square of blockers.
evalBoard(piece, from, blockers) ==
    boardOf({<<from[1], from[2], piece>>}
            \cup {<<sq[1], sq[2], "p">> : sq \in blockers \ {from}})

InitEval ==
    /\ gameStart(initialBoard, "white")
    /\ evPiece \in Sliders
    /\ evFrom \in EvalOrigins
    /\ \E blockers \in blockerSets(MaxBlockers) :
           evBoard = evalBoard(evPiece, evFrom, blockers)
    /\ evResult = [to \in Squares |-> "unevaluated"]

\* isLegalMove is called for the piece and every destination, in move mode
\* or in attack mode.
Evaluate ==
    /\ evResult[evFrom] = "unevaluated"
    /\ \E attackMode \in BOOLEAN :
           evResult' = [to \in Squares |->
                           isLegalMoveResult(evFrom, to, evPiece, evBoard,
                                             attackMode)]
    /\ UNCHANGED <<evPiece, evFrom, evBoard>>
    /\ UNCHANGED gameVars

NextEval == Evaluate

SpecEval == InitEval /\ [][NextEval]_vars

\* ------------------------------------------------------------------------
\* The game on boards that lack a king
\* ------------------------------------------------------------------------

\* The back-rank position without the white king: White, to move, can mate.
whiteKingless ==
    [board |-> boardOf({<<0, 6, "k">>, <<1, 5, "p">>, <<1, 6, "p">>,
                        <<1, 7, "p">>, <<7, 3, "R">>}),
     player |-> "white"]

\* The rook-and-pawn position without the black king, Black to move.
blackKingless ==
    [board |-> boardOf({<<6, 4, "K">>, <<6, 0, "r">>, <<4, 4, "p">>}),
     player |-> "black"]

Kingless == {whiteKingless, blackKingless}

InitKingless ==
    (\E pos \in Kingless : gameStart(pos.board, pos.player)) /\ evIdle

SpecKingless == InitKingless /\ [][NextEnd]_vars

\* ------------------------------------------------------------------------
\* isLegalMove for a pawn
\* ------------------------------------------------------------------------

Pawns == {"P", "p"}

\* The origins of the evaluated pawn moves: both starting ranks and a middle
\* rank, on the edge columns and an inner one.
PawnOrigins == {1, 4, 6} \X {0, 4, 7}

\* The board holding piece on from and the piece other on each square of
\* blockers.
pawnBoard(piece, from, blockers, other) ==
    boardOf({<<from[1], from[2], piece>>}
            \cup {<<sq[1], sq[2], other>> : sq \in blockers \ {from}})

InitPawn ==
    /\ gameStart(initialBoard, "white")
    /\ evPiece \in Pawns
    /\ evFrom \in PawnOrigins
    /\ \E blockers \in blockerSets(MaxBlockers), other \in {"n", "N"} :
           evBoard = pawnBoard(evPiece, evFrom, blockers, other)
    /\ evResult = [to \in Squares |-> "unevaluated"]

SpecPawn == InitPawn /\ [][NextEval]_vars

\* ------------------------------------------------------------------------
\* isInCheck against pawns
\* ------------------------------------------------------------------------

\* The king the pawn is opposed to, and a knight on that king's side.
kingAgainst(pawn) == IF pawn = "P" THEN "k" ELSE "K"

knightAgainst(pawn) == IF pawn = "P" THEN "n" ELSE "N"

\* The origins of the pawn: a starting rank of each colour on an edge column
\* and the middle of the board.
CheckOrigins == {<<1, 0>>, <<4, 4>>, <<6, 7>>}

\* Beside the pawn the board holds more pawns of its colour, anywhere, or
\* knights of the king's colour.
InitCheck ==
    /\ gameStart(initialBoard, "white")
    /\ evPiece \in Pawns
    /\ evFrom \in CheckOrigins
    /\ \E blockers \in blockerSets(MaxBlockers),
          other \in {evPiece, knightAgainst(evPiece)} :
           evBoard = pawnBoard(evPiece, evFrom, blockers, other)
    /\ evResult = [to \in Squares |-> "unevaluated"]

\* isInCheck is called with the opposing king placed on each empty square
\* in turn.
EvaluateCheck ==
    /\ evResult[evFrom] = "unevaluated"
    /\ evResult' =
           [to \in Squares |->
               IF evBoard[to[1]][to[2]] # "" THEN "occupied"
               ELSE LET king == kingAgainst(evPiece)
                        board == [evBoard EXCEPT ![to[1]][to[2]] = king]
                    IN  IF isInCheck(board, IF isWhite(king) THEN "white"
                                            ELSE "black")
                        THEN "true" ELSE "false"]
    /\ UNCHANGED <<evPiece, evFrom, evBoard>>
    /\ UNCHANGED gameVars

NextCheck == EvaluateCheck

SpecCheck == InitCheck /\ [][NextCheck]_vars

\* ------------------------------------------------------------------------
\* The rules of chess the properties are stated against, written without
\* the scans and loops of the program.
\* ------------------------------------------------------------------------

RefColor(p) ==
    IF p \in {"K", "Q", "R", "B", "N", "P"} THEN "white"
    ELSE IF p \in {"k", "q", "r", "b", "n", "p"} THEN "black"
    ELSE "none"

RefKind(p) ==
    CASE p \in {"K", "k"} -> "king" [] p \in {"Q", "q"} -> "queen"
      [] p \in {"R", "r"} -> "rook" [] p \in {"B", "b"} -> "bishop"
      [] p \in {"N", "n"} -> "knight" [] p \in {"P", "p"} -> "pawn"
      [] OTHER -> "none"

RefOpp(c) == IF c = "white" THEN "black" ELSE "white"

RefAt(board, sq) == board[sq[1]][sq[2]]

RefSign(x) == IF x > 0 THEN 1 ELSE IF x < 0 THEN -1 ELSE 0

RefSameLine(a, b) == a # b /\ (a[1] = b[1] \/ a[2] = b[2])

RefSameDiag(a, b) == a # b /\ Abs(a[1] - b[1]) = Abs(a[2] - b[2])

\* The squares strictly between two squares of one row, column or diagonal.
RefBetween(a, b) ==
    LET dr == b[1] - a[1]
        dc == b[2] - a[2]
        n == IF Abs(dr) > Abs(dc) THEN Abs(dr) ELSE Abs(dc)
    IN  IF RefSameLine(a, b) \/ RefSameDiag(a, b)
        THEN {<<a[1] + k * RefSign(dr), a[2] + k * RefSign(dc)>> :
                 k \in 1 .. (n - 1)}
        ELSE {}

RefClear(board, a, b) == \A s \in RefBetween(a, b) : RefAt(board, s) = ""

\* Forward direction of a colour's pawns.
RefForward(c) == IF c = "white" THEN -1 ELSE 1

RefStartRow(c) == IF c = "white" THEN 6 ELSE 1

\* The piece on a attacks the square t.
RefAttacks(board, a, t) ==
    LET p == RefAt(board, a)
        kind == RefKind(p)
        dr == t[1] - a[1]
        dc == t[2] - a[2]
    IN  /\ a # t
        /\ CASE kind = "pawn" ->
                    dr = RefForward(RefColor(p)) /\ Abs(dc) = 1
             [] kind = "knight" ->
                    {Abs(dr), Abs(dc)} = {1, 2}
             [] kind = "king" ->
                    Abs(dr) <= 1 /\ Abs(dc) <= 1
             [] kind = "rook" ->
                    RefSameLine(a, t) /\ RefClear(board, a, t)
             [] kind = "bishop" ->
                    RefSameDiag(a, t) /\ RefClear(board, a, t)
             [] kind = "queen" ->
                    /\ RefSameLine(a, t) \/ RefSameDiag(a, t)
                    /\ RefClear(board, a, t)
             [] OTHER -> FALSE

\* Some piece of colour c attacks the square t.
RefAttackedBy(board, t, c) ==
    \E a \in Squares :
        RefColor(RefAt(board, a)) = c /\ RefAttacks(board, a, t)

RefKingOf(c) == IF c = "white" THEN "K" ELSE "k"

\* A king of colour c stands on a square the other colour attacks.
RefKingAttacked(board, c) ==
    \E k \in Squares :
        /\ RefAt(board, k) = RefKingOf(c)
        /\ RefAttackedBy(board, k, RefOpp(c))

\* The movement pattern of the piece on a reaches t.
RefPseudo(board, a, t) ==
    LET p == RefAt(board, a)
        c == RefColor(p)
        dr == t[1] - a[1]
        dc == t[2] - a[2]
    IN  IF RefKind(p) = "pawn"
        THEN \/ /\ dc = 0
                /\ dr = RefForward(c)
                /\ RefAt(board, t) = ""
             \/ /\ dc = 0
                /\ a[1] = RefStartRow(c)
                /\ dr = 2 * RefForward(c)
                /\ RefAt(board, t) = ""
                /\ RefClear(board, a, t)
             \/ /\ Abs(dc) = 1
                /\ dr = RefForward(c)
                /\ RefColor(RefAt(board, t)) = RefOpp(c)
        ELSE RefAttacks(board, a, t)

\* The board after the piece on a has moved to t.
RefMoved(board, a, t) ==
    [r \in Range |->
        [c \in Range |->
            IF <<r, c>> = t THEN RefAt(board, a)
            ELSE IF <<r, c>> = a THEN ""
            ELSE board[r][c]]]

\* The move from a to t is legal for colour c.
RefLegal(board, c, a, t) ==
    /\ a # t
    /\ RefColor(RefAt(board, a)) = c
    /\ RefColor(RefAt(board, t)) # c
    /\ RefPseudo(board, a, t)
    /\ ~RefKingAttacked(RefMoved(board, a, t), c)

RefHasLegalMove(board, c) ==
    \E a \in Squares :
        /\ RefColor(RefAt(board, a)) = c
        /\ \E t \in Squares : RefLegal(board, c, a, t)

RefMated(board, c) == RefKingAttacked(board, c) /\ ~RefHasLegalMove(board, c)

\* The step applies a move: the board changes.
MoveApplied == gameBoard' # gameBoard

\* ------------------------------------------------------------------------
\* C1
\* ------------------------------------------------------------------------

\* The destinations listed for the squares holding a piece of the side to
\* move never leave that side's king attacked.
ListedMovesKeepKingSafe ==
    \A from \in Squares :
        RefColor(RefAt(gameBoard, from)) = currentPlayer =>
            \A to \in getPossibleMoves(from[1], from[2]) :
                ~RefKingAttacked(RefMoved(gameBoard, from, to), currentPlayer)

\* A move that is applied moves the selected piece and leaves the mover's
\* king unattacked.
AppliedMoveKeepsKingSafe ==
    MoveApplied =>
        /\ selected # null
        /\ \E to \in Squares : gameBoard' = RefMoved(gameBoard, selected, to)
        /\ ~RefKingAttacked(gameBoard', currentPlayer)

\* C1: for every board and colour c to move and every origin holding a piece
\* of c, no destination returned by getPossibleMoves and no move accepted by
\* handleSquareClick leaves c's own king attacked on the board obtained by
\* moving the piece to the destination and clearing the origin.
C1_NoMoveLeavesOwnKingAttacked ==
    []ListedMovesKeepKingSafe /\ [][AppliedMoveKeepsKingSafe]_vars

\* A piece is selected after a move, some of its pattern moves are listed and
\* another one is left out because it would leave the king attacked.
C1_Witness ==
    /\ moves > 0
    /\ selected # null
    /\ getPossibleMoves(selected[1], selected[2]) # {}
    /\ \E to \in Squares :
           /\ RefColor(RefAt(gameBoard, to)) # currentPlayer
           /\ RefPseudo(gameBoard, selected, to)
           /\ RefKingAttacked(RefMoved(gameBoard, selected, to), currentPlayer)
           /\ to \notin getPossibleMoves(selected[1], selected[2])

\* ------------------------------------------------------------------------
\* C2
\* ------------------------------------------------------------------------

RefAnnouncement(c) ==
    IF c = "white" THEN "Checkmate! White wins!" ELSE "Checkmate! Black wins!"

\* C2: whenever a move delivers checkmate, the colour reported as the winner
\* is the colour that made the mating move, also in the announcement that
\* fires after the side to move has been switched: the colour an
\* announcement names has checkmated the other colour on the board.
C2_AnnouncedWinnerIsMater ==
    \A c \in {"white", "black"} :
        alert = RefAnnouncement(c) => RefMated(gameBoard, RefOpp(c))

\* ------------------------------------------------------------------------
\* C3
\* ------------------------------------------------------------------------

RefMateStatus(c) ==
    IF c = "white" THEN "Current turn: White - Check! Checkmate!"
    ELSE "Current turn: Black - Check! Checkmate!"

CheckmateDeclaredExactlyOnMate ==
    MoveApplied =>
        LET opp == RefOpp(currentPlayer)
            mated == RefMated(gameBoard', opp)
        IN  /\ currentPlayer' = opp
            /\ timers' = IF mated THEN timers + 1 ELSE timers
            /\ mated <=> outcome' = "mate"
            /\ mated <=> statusText(gameBoard', currentPlayer')
                            = RefMateStatus(opp)

\* C3: after any accepted move, checkmate is declared if and only if, on the
\* new board, the opponent of the mover is in check and has no legal move;
\* in every other case the game continues with the opponent to move and no
\* checkmate is declared.
C3_CheckmateIffCheckAndNoLegalMove == [][CheckmateDeclaredExactlyOnMate]_vars

\* A move has just delivered checkmate and its announcement is pending.
C3_Witness ==
    /\ outcome = "mate"
    /\ timers = 1
    /\ RefMated(gameBoard, currentPlayer)

\* ------------------------------------------------------------------------
\* C4
\* ------------------------------------------------------------------------

f2 == <<6, 5>>
f3 == <<5, 5>>
e7 == <<1, 4>>
e5 == <<3, 4>>
g2 == <<6, 6>>
g4 == <<4, 6>>
d8 == <<0, 3>>
h4 == <<4, 7>>

afterF3 == RefMoved(initialBoard, f2, f3)
afterE5 == RefMoved(afterF3, e7, e5)
afterG4 == RefMoved(afterE5, g2, g4)
afterQh4 == RefMoved(afterG4, d8, h4)

\* Each move of the fool's mate is accepted in its turn and the last one is
\* declared checkmate.
FoolsMateAcceptedAndDeclared ==
    /\ gameBoard = initialBoard /\ currentPlayer = "white" => accepts(f2, f3)
    /\ gameBoard = afterF3 /\ currentPlayer = "black" => accepts(e7, e5)
    /\ gameBoard = afterE5 /\ currentPlayer = "white" => accepts(g2, g4)
    /\ gameBoard = afterG4 /\ currentPlayer = "black" => accepts(d8, h4)
    /\ gameBoard = afterQh4 => mateDeclared /\ currentPlayer = "white"

\* The fool's mate has been played.
FoolsMatePlayed == gameBoard = afterQh4 /\ moves = 4

\* C4: from the initial position the moves f2-f3, e7-e5, g2-g4 and Qd8-h4 are
\* each accepted in that order, and the last one yields checkmate with Black
\* as the winner: the winner announced after it is Black.
C4_FoolsMateBlackWins ==
    /\ FoolsMateAcceptedAndDeclared
    /\ gameBoard = afterQh4 /\ outcome = "announced" =>
           alert = RefAnnouncement("black")

\* ------------------------------------------------------------------------
\* C5
\* ------------------------------------------------------------------------

\* No click on a destination is applied as a move, whatever piece of the side
\* to move is selected.
NoMoveAccepted ==
    \A from \in Squares :
        canSelect(RefAt(gameBoard, from), currentPlayer) =>
            \A to \in Squares : ~accepts(from, to)

\* C5: once a move has delivered checkmate, every later move attempt is
\* rejected, and the board and the side to move never change again.
C5_CheckmateIsTerminal ==
    [][mateDeclared =>
          /\ NoMoveAccepted
          /\ gameBoard' = gameBoard
          /\ currentPlayer' = currentPlayer]_vars

\* After a checkmate, with moves still allowed by the bound, an attempt of
\* the mated side has been rejected.
C5_Witness ==
    /\ mateDeclared
    /\ moves < MaxEndMoves
    /\ outcome \in {"intoCheck", "rejected"}

\* ------------------------------------------------------------------------
\* C6
\* ------------------------------------------------------------------------

\* The click on sq completes a legal move of the selected piece.
RefLegalAttempt(sq) ==
    selected # null /\ RefLegal(gameBoard, currentPlayer, selected, sq)

\* C6: a rejected move attempt (no piece at the origin, a piece of the wrong
\* colour, a destination holding a piece of the mover's colour, an
\* unreachable or blocked pattern, or a move leaving the mover's king
\* attacked) leaves the board and the side to move as they were.  Stated by
\* contraposition: a click that changes the board or the side to move
\* completes a legal move of the selected piece.
C6_RejectedAttemptChangesNothing ==
    [][gameBoard' # gameBoard \/ currentPlayer' # currentPlayer =>
          \A sq \in Squares :
              handleSquareClick(sq[1], sq[2]) => RefLegalAttempt(sq)]_vars

\* A move that would leave the mover's king attacked has just been rejected.
C6_Witness ==
    /\ outcome = "intoCheck"
    /\ alert = "You can't move into check!"
    /\ moves > 0

\* ------------------------------------------------------------------------
\* C7
\* ------------------------------------------------------------------------

TurnChangesWithMove ==
    /\ currentPlayer' # currentPlayer <=> MoveApplied
    /\ MoveApplied =>
           /\ selected # null
           /\ RefColor(RefAt(gameBoard, selected)) = currentPlayer
           /\ currentPlayer' = RefOpp(currentPlayer)

\* C7: the game starts with White to move, and the side to move changes
\* exactly when a move is accepted: every accepted move is made by the side
\* to move and hands the turn to its opponent.
C7_TurnsAlternate == currentPlayer = "white" /\ [][TurnChangesWithMove]_vars

\* White, Black and White have moved in turn.
C7_Witness == moves = 3 /\ outcome = "moved" /\ currentPlayer = "black"

\* ------------------------------------------------------------------------
\* C8
\* ------------------------------------------------------------------------

SelectionIsOwnPiece ==
    selected # null => RefColor(RefAt(gameBoard, selected)) = currentPlayer

MoveIsOwnPieceOntoOther ==
    MoveApplied =>
        /\ selected # null
        /\ RefColor(RefAt(gameBoard, selected)) = currentPlayer
        /\ \E to \in Squares :
               /\ gameBoard' = RefMoved(gameBoard, selected, to)
               /\ RefColor(RefAt(gameBoard, to)) # currentPlayer

\* C8: a move is accepted only if its origin holds a piece of the side to
\* move and its destination does not; in every reachable state a non-null
\* selection refers to a square holding a piece of the side to move.
C8_OnlyOwnPiecesMove == []SelectionIsOwnPiece /\ [][MoveIsOwnPieceOntoOther]_vars

\* Black has selected a piece after White's move.
C8_Witness ==
    /\ outcome = "selected"
    /\ moves > 0
    /\ currentPlayer = "black"
    /\ selected # null

\* ------------------------------------------------------------------------
\* C9
\* ------------------------------------------------------------------------

RefAdjacent(a, b) ==
    a # b /\ Abs(a[1] - b[1]) <= 1 /\ Abs(a[2] - b[2]) <= 1

\* C9: a king move onto a square that an opposing piece attacks on the board
\* after the move is rejected (a square on an opposing rook's line once the
\* king has left its origin, an empty square diagonally ahead of an opposing
\* pawn).
C9_KingCannotStepIntoAttack ==
    \A k \in Squares :
        RefAt(gameBoard, k) = RefKingOf(currentPlayer) =>
            \A d \in Squares :
                /\ RefAdjacent(k, d)
                /\ RefAttackedBy(RefMoved(gameBoard, k, d), d,
                                 RefOpp(currentPlayer))
                => ~accepts(k, d)

\* The white king, checked by the rook on its row, has been refused a move:
\* the square behind it on the rook's row and the empty squares diagonally
\* ahead of the black pawn are refused.
C9_Witness ==
    /\ gameBoard = rookAndPawn.board
    /\ currentPlayer = "white"
    /\ outcome = "intoCheck"
    /\ RefAt(gameBoard, <<6, 5>>) = "" /\ ~accepts(<<6, 4>>, <<6, 5>>)
    /\ RefAt(gameBoard, <<5, 5>>) = "" /\ ~accepts(<<6, 4>>, <<5, 5>>)
    /\ RefAt(gameBoard, <<5, 3>>) = "" /\ ~accepts(<<6, 4>>, <<5, 3>>)

\* ------------------------------------------------------------------------
\* C10
\* ------------------------------------------------------------------------

RefOccupiedBetween(board, a, b) ==
    \E s \in RefBetween(a, b) : RefAt(board, s) # ""

\* The kind of the evaluated piece moves along the line from a to b.
RefLineOf(kind, a, b) ==
    \/ kind \in {"rook", "queen"} /\ RefSameLine(a, b)
    \/ kind \in {"bishop", "queen"} /\ RefSameDiag(a, b)

\* C10: for every board and every pair of distinct squares on one row, column
\* or diagonal, isLegalMove for a rook, bishop or queen returns false
\* whenever a square strictly between origin and destination is occupied, in
\* every direction of travel; and for a rook on a shared row or column, a
\* bishop on a shared diagonal and a queen on either, it returns true when
\* all squares strictly between are empty.
C10_SlidersStopAtBlockers ==
    evResult[evFrom] # "unevaluated" =>
        \A to \in Squares :
            RefSameLine(evFrom, to) \/ RefSameDiag(evFrom, to) =>
                /\ RefOccupiedBetween(evBoard, evFrom, to) =>
                       evResult[to] = "false"
                /\ /\ ~RefOccupiedBetween(evBoard, evFrom, to)
                   /\ RefLineOf(RefKind(evPiece), evFrom, to)
                   => evResult[to] = "true"

\* A queen in a corner has been evaluated with a blocker on its diagonal:
\* the squares behind the blocker are refused, the blocker's square and the
\* squares of the open row are reached.
C10_Witness ==
    /\ evPiece = "q"
    /\ evFrom = <<7, 7>>
    /\ RefAt(evBoard, <<4, 4>>) = "p"
    /\ evResult[<<3, 3>>] = "false"
    /\ evResult[<<4, 4>>] = "true"
    /\ evResult[<<7, 0>>] = "true"

\* ------------------------------------------------------------------------
\* C11
\* ------------------------------------------------------------------------

Evaluated == evResult[evFrom] # "unevaluated"

\* The destinations in the pawn's own column that isLegalMove allows.
ForwardDestinations ==
    {to \in Squares : to[2] = evFrom[2] /\ evResult[to] = "true"}

\* C11: a pawn on its starting rank (row 6 for White, row 1 for Black) may
\* advance two squares only if both the intermediate square and the
\* destination square are empty; when the square directly ahead is empty and
\* the square two ahead is occupied, the pawn has exactly one forward
\* destination, and when the square directly ahead is occupied it has none.
C11_DoubleStepNeedsBothSquaresEmpty ==
    Evaluated /\ evFrom[1] = RefStartRow(RefColor(evPiece)) =>
        LET f == RefForward(RefColor(evPiece))
            one == <<evFrom[1] + f, evFrom[2]>>
            two == <<evFrom[1] + 2 * f, evFrom[2]>>
        IN  /\ evResult[two] = "true" =>
                   RefAt(evBoard, one) = "" /\ RefAt(evBoard, two) = ""
            /\ RefAt(evBoard, one) = "" /\ RefAt(evBoard, two) # "" =>
                   ForwardDestinations = {one}
            /\ RefAt(evBoard, one) # "" => ForwardDestinations = {}

\* A white pawn on its starting rank has been evaluated with the square two
\* ahead occupied: it reaches the square ahead only.
C11_Witness ==
    /\ evPiece = "P"
    /\ evFrom = <<6, 4>>
    /\ RefAt(evBoard, <<5, 4>>) = ""
    /\ RefAt(evBoard, <<4, 4>>) # ""
    /\ ForwardDestinations = {<<5, 4>>}

\* ------------------------------------------------------------------------
\* C12
\* ------------------------------------------------------------------------

\* Some square holding a piece of the side to move has a destination listed
\* by getPossibleMoves.
SomePieceHasPossibleMoves ==
    \E from \in Squares :
        /\ RefAt(gameBoard, from) # ""
        /\ RefColor(RefAt(gameBoard, from)) = currentPlayer
        /\ getPossibleMoves(from[1], from[2]) # {}

\* C12: hasAnyLegalMoves is true for a board and a colour exactly when at
\* least one square holding a piece of that colour has a non-empty
\* getPossibleMoves; getPossibleMoves reads the live board and the side to
\* move, so the two are compared on them.
C12_HasAnyLegalMovesIffSomePossibleMove ==
    hasAnyLegalMoves(gameBoard, currentPlayer) <=> SomePieceHasPossibleMoves

\* The side to move has pieces that could move by their pattern, yet neither
\* enumeration finds a move: it is checkmated or stalemated.
C12_Witness ==
    /\ moves > 0
    /\ hasAnyLegalMoves_noTrial(gameBoard, currentPlayer)
    /\ ~hasAnyLegalMoves(gameBoard, currentPlayer)
    /\ ~SomePieceHasPossibleMoves

\* ------------------------------------------------------------------------
\* C13
\* ------------------------------------------------------------------------

\* The squares on which a click is applied as a move of the selected piece.
AcceptedDestinations == {to \in Squares : accepts(selected, to)}

ListedAreTheAccepted ==
    selected # null =>
        getPossibleMoves(selected[1], selected[2]) = AcceptedDestinations

AppliedMoveGoesToListed ==
    MoveApplied =>
        /\ selected # null
        /\ \E to \in getPossibleMoves(selected[1], selected[2]) :
               gameBoard' = RefMoved(gameBoard, selected, to)

\* C13: in every reachable state with a piece selected, getPossibleMoves for
\* it is exactly the set of destination squares on which a click is accepted
\* as a move by handleSquareClick: the highlighted squares and the accepted
\* moves never differ.
C13_HighlightedAreTheAcceptedMoves ==
    []ListedAreTheAccepted /\ [][AppliedMoveGoesToListed]_vars

\* A piece is selected after a move has been made; some destinations are
\* listed, and some move of the right shape would expose its king.
C13_Witness ==
    /\ selected # null
    /\ moves > 0
    /\ AcceptedDestinations # {}
    /\ \E to \in Squares : patternOk(selected, to) /\ ~accepts(selected, to)

\* ------------------------------------------------------------------------
\* C14
\* ------------------------------------------------------------------------

\* No square of the board holds the king of colour c.
RefNoKing(board, c) == \A sq \in Squares : RefAt(board, sq) # RefKingOf(c)

MissingKingIsNotInCheck ==
    \A c \in {"white", "black"} :
        RefNoKing(gameBoard, c) => ~isInCheck(gameBoard, c)

MissingKingAcceptsEveryPatternMove ==
    RefNoKing(gameBoard, currentPlayer) /\ selected # null =>
        \A to \in Squares : patternOk(selected, to) => accepts(selected, to)

MissingKingNeverIntoCheck ==
    RefNoKing(gameBoard, currentPlayer) => outcome' # "intoCheck"

\* C14: on a board with no king of a colour, isInCheck for that colour
\* returns false without failing, whatever the other pieces are; so no move
\* of that colour is rejected for king safety on such a board.
C14_MissingKingIsNeverInCheck ==
    /\ [](MissingKingIsNotInCheck /\ MissingKingAcceptsEveryPatternMove)
    /\ [][MissingKingNeverIntoCheck]_vars

\* Black, without a king, has moved its rook and the move was applied.
C14_Witness ==
    /\ RefNoKing(gameBoard, "black")
    /\ currentPlayer = "white"
    /\ moves = 1
    /\ outcome = "moved"
    /\ RefAt(gameBoard, <<6, 0>>) = ""

\* ------------------------------------------------------------------------
\* C15
\* ------------------------------------------------------------------------

e2 == <<6, 4>>
e4 == <<4, 4>>

afterE4 == RefMoved(initialBoard, e2, e4)

KingsPawnSelected ==
    gameBoard = initialBoard /\ currentPlayer = "white" /\ selected = e2

KingsPawnOpeningAccepted ==
    KingsPawnSelected /\ handleSquareClick(e4[1], e4[2]) =>
        /\ gameBoard' = afterE4
        /\ outcome' = "moved"
        /\ currentPlayer' = "black"

AfterKingsPawnOpening ==
    gameBoard = afterE4 /\ moves = 1 =>
        /\ currentPlayer = "black"
        /\ ~RefKingAttacked(gameBoard, "black")
        /\ ~mateDeclared
        /\ timers = 0
        /\ statusText(gameBoard, currentPlayer) = "Current turn: Black"

\* C15: from the initial position with White to move, the pawn move from
\* (6,4) to (4,4) is accepted; afterwards it is Black's turn, Black is not in
\* check, and no checkmate is declared.
C15_KingsPawnOpening ==
    /\ [](KingsPawnSelected => accepts(e2, e4))
    /\ [][KingsPawnOpeningAccepted]_vars
    /\ []AfterKingsPawnOpening

\* The pawn stands on (4,4) after White's first move.
C15_Witness ==
    gameBoard = afterE4 /\ moves = 1 /\ outcome = "moved" /\ selected = null

\* ------------------------------------------------------------------------
\* C16
\* ------------------------------------------------------------------------

\* C16: isLegalMove terminates and returns a boolean for every piece kind and
\* colour, every origin and every destination with rows and columns in 0..7,
\* the origin itself included, every board and both attack modes; the scans
\* of the sliding pieces never read a square outside rows and columns 0..7.
\* A scan that leaves the rows of the board ends in a TypeError, which is not
\* a boolean.
C16_IsLegalMoveReturnsBoolean ==
    Evaluated => \A to \in Squares : evResult[to] \in {"true", "false"}

\* ------------------------------------------------------------------------
\* C17
\* ------------------------------------------------------------------------

\* The number of pieces on the board.
RefPieceCount(board) ==
    Cardinality({sq \in Squares : RefAt(board, sq) # ""})

\* C17: an accepted move changes exactly two squares of the board: the
\* destination then holds the moved piece, its kind and colour unchanged (a
\* pawn reaching the last rank stays a pawn), and the origin is empty; every
\* other square is unchanged; the number of pieces decreases by one when the
\* destination was occupied and is otherwise unchanged, and never increases.
C17_AppliedMoveChangesTwoSquares ==
    [][MoveApplied =>
          /\ selected # null
          /\ RefAt(gameBoard, selected) # ""
          /\ \E to \in Squares \ {selected} :
                 /\ RefAt(gameBoard, to) # RefAt(gameBoard, selected)
                 /\ RefAt(gameBoard', to) = RefAt(gameBoard, selected)
                 /\ RefAt(gameBoard', selected) = ""
                 /\ \A sq \in Squares \ {selected, to} :
                        RefAt(gameBoard', sq) = RefAt(gameBoard, sq)
                 /\ RefPieceCount(gameBoard') =
                        IF RefAt(gameBoard, to) # ""
                        THEN RefPieceCount(gameBoard) - 1
                        ELSE RefPieceCount(gameBoard)]_vars

\* The white pawn has captured the knight on the last rank and is still a
\* pawn; three pieces are left of four.
C17_Witness ==
    /\ RefAt(gameBoard, <<0, 6>>) = "P"
    /\ RefAt(gameBoard, <<1, 7>>) = ""
    /\ RefPieceCount(gameBoard) = 3
    /\ moves = 1

\* ------------------------------------------------------------------------
\* C18
\* ------------------------------------------------------------------------

\* A click has been handled without a move being applied: a selection, which
\* lists the possible moves, or a refused attempt, which may have tried the
\* move.
QueriesLeaveGameAlone ==
    moves' = moves => gameBoard' = gameBoard /\ currentPlayer' = currentPlayer

\* The applied move is all that shows of the trial boards.
NoHalfAppliedMove ==
    moves' # moves =>
        \E to \in Squares : gameBoard' = RefMoved(gameBoard, selected, to)

\* C18: isInCheck, isSquareAttacked, hasAnyLegalMoves and getPossibleMoves,
\* and the move simulation inside a rejected move attempt, never modify the
\* live board or the side to move: every trial move is applied to a copy
\* whose rows are copied too, so no half-applied move is observable on the
\* live board.
C18_QueriesNeverModifyTheGame ==
    [][QueriesLeaveGameAlone /\ NoHalfAppliedMove]_vars

\* A move that would leave the mover's king attacked has been tried and
\* refused while that king is in check, so the status line has searched for
\* legal moves as well.
C18_Witness ==
    /\ outcome = "intoCheck"
    /\ alert = checkAlert
    /\ RefKingAttacked(gameBoard, currentPlayer)
    /\ moves > 0

\* ------------------------------------------------------------------------
\* C19
\* ------------------------------------------------------------------------

\* The side to move is not in check and has no legal move.
RefStalemated ==
    /\ ~RefKingAttacked(gameBoard, currentPlayer)
    /\ ~RefHasLegalMove(gameBoard, currentPlayer)

RefTurnStatus(c) ==
    IF c = "white" THEN "Current turn: White" ELSE "Current turn: Black"

StalemateIsNotCheckmate ==
    RefStalemated =>
        /\ NoMoveAccepted
        /\ ~mateDeclared
        /\ timers = 0
        /\ alert \notin {checkmateAlert("white"), checkmateAlert("black")}
        /\ statusText(gameBoard, currentPlayer) = RefTurnStatus(currentPlayer)

StalemateIsLeftByNoStep ==
    gameBoard' # gameBoard \/ currentPlayer' # currentPlayer \/ timers' # timers
        => ~RefStalemated

\* C19: in a stalemate position (the side to move is not in check and has no
\* legal move) no checkmate is declared or displayed, every move attempt is
\* rejected, and the side to move stays the stalemated colour forever: the
\* turn is never passed back.
C19_StalemateFreezesTheGame ==
    []StalemateIsNotCheckmate /\ [][StalemateIsLeftByNoStep]_vars

\* The black king is stalemated in the corner and an attempt to step next to
\* the white pawn has been refused, with moves still allowed by the bound.
C19_Witness ==
    /\ RefStalemated
    /\ currentPlayer = "black"
    /\ outcome = "intoCheck"
    /\ moves < MaxEndMoves

\* ------------------------------------------------------------------------
\* C20
\* ------------------------------------------------------------------------

PawnMovesForward ==
    MoveApplied /\ selected # null
                /\ RefKind(RefAt(gameBoard, selected)) = "pawn" =>
        LET f == RefForward(RefColor(RefAt(gameBoard, selected)))
        IN  \E to \in Squares :
                /\ gameBoard' = RefMoved(gameBoard, selected, to)
                /\ to[1] - selected[1] \in {f, 2 * f}
                /\ Abs(to[2] - selected[2]) <= 1

NoPawnBehindItsStartingRank ==
    \A col \in Range :
        RefAt(gameBoard, <<7, col>>) # "P" /\ RefAt(gameBoard, <<0, col>>) # "p"

\* C20: every accepted pawn move changes the pawn's row by one or two in its
\* colour's forward direction only (White toward lower row indices, Black
\* toward higher) and its column by at most one; so in every state reachable
\* from the initial position no white pawn stands on row 7 and no black pawn
\* on row 0.
C20_PawnsOnlyMoveForward ==
    [][PawnMovesForward]_vars /\ []NoPawnBehindItsStartingRank

\* After a double step of each side the white king's pawn has captured the
\* black queen's pawn, one row ahead and one column aside.
C20_Witness ==
    /\ RefAt(gameBoard, <<3, 3>>) = "P"
    /\ RefAt(gameBoard, <<4, 4>>) = ""
    /\ RefAt(gameBoard, <<6, 4>>) = ""
    /\ moves = 3

\* ------------------------------------------------------------------------
\* C21
\* ------------------------------------------------------------------------

\* C21: in every state reachable from the initial position by accepted
\* moves, the colour that is not to move (the one that has just moved) is not
\* in check.
C21_SideNotToMoveIsNotInCheck ==
    /\ ~isInCheck(gameBoard, opponentOf(currentPlayer))
    /\ ~RefKingAttacked(gameBoard, RefOpp(currentPlayer))

\* The white king was in check from the rook on its row; White has moved and
\* it is Black's turn.
C21_Witness ==
    /\ RefAt(gameBoard, <<6, 0>>) = "r"
    /\ RefAt(gameBoard, <<4, 4>>) = "p"
    /\ RefAt(gameBoard, <<6, 4>>) = ""
    /\ currentPlayer = "black"
    /\ moves = 1

\* ------------------------------------------------------------------------
\* C22
\* ------------------------------------------------------------------------

\* The squares of the board holding the piece p.
RefSquaresOf(board, p) == {sq \in Squares : RefAt(board, sq) = p}

OneKingEach ==
    /\ Cardinality(RefSquaresOf(gameBoard, "K")) = 1
    /\ Cardinality(RefSquaresOf(gameBoard, "k")) = 1

\* A square that held a king holds it still or has been left by it.
NoKingCaptured ==
    MoveApplied =>
        \A sq \in RefSquaresOf(gameBoard, "K") \cup RefSquaresOf(gameBoard, "k") :
            RefAt(gameBoard', sq) \in {"", RefAt(gameBoard, sq)}

\* C22: in every state reachable from the initial position by accepted
\* moves, the board holds exactly one white king and exactly one black king:
\* no accepted move ever captures a king.
C22_ExactlyOneKingEach == []OneKingEach /\ [][NoKingCaptured]_vars

\* The white king has left the rook's row and the rook has given check
\* again: the king is attacked, it is its side's turn, both kings stand.
C22_Witness ==
    /\ moves = 2
    /\ currentPlayer = "white"
    /\ RefAt(gameBoard, <<4, 4>>) = "p"
    /\ RefSquaresOf(gameBoard, "r") # {}
    /\ RefAt(gameBoard, <<6, 0>>) = ""
    /\ RefKingAttacked(gameBoard, "white")

\* ------------------------------------------------------------------------
\* C23
\* ------------------------------------------------------------------------

\* Some pawn of the evaluated colour stands one row behind the square t, in
\* its forward direction, and one column aside.
RefPawnDiagonalTo(t) ==
    \E a \in Squares :
        /\ RefAt(evBoard, a) = evPiece
        /\ t[1] = a[1] + RefForward(RefColor(evPiece))
        /\ Abs(t[2] - a[2]) = 1

\* C23: a pawn gives check only diagonally: isInCheck never reports a king
\* in check because of an opposing pawn in the king's own column, directly
\* behind or ahead of it, although attack mode reuses the pawn's forward
\* rule; a pawn contributes to check exactly when the king stands one row
\* ahead of the pawn in the pawn's forward direction and one column to either
\* side.  The boards hold no opposing piece but pawns.
C23_PawnChecksOnlyDiagonally ==
    Evaluated =>
        \A to \in Squares :
            RefAt(evBoard, to) = "" =>
                /\ evResult[to] \in {"true", "false"}
                /\ evResult[to] = "true" <=> RefPawnDiagonalTo(to)

\* A white pawn in the middle of the board: the king is in check on the two
\* squares diagonally ahead of it and on neither square of its column next
\* to it.
C23_Witness ==
    /\ evPiece = "P"
    /\ evFrom = <<4, 4>>
    /\ evResult[<<3, 3>>] = "true"
    /\ evResult[<<3, 5>>] = "true"
    /\ evResult[<<3, 4>>] = "false"
    /\ evResult[<<5, 4>>] = "false"

====
